---- MODULE Spec2Model ----
(***************************************************************************)
(* Model of HQV_dipole.py: a script that builds a spectral grid, generates *)
(* a two-component wavefunction, relaxes it in imaginary time, creates an  *)
(* HDF5 store and evolves in real time, appending snapshots to the store.  *)
(*                                                                         *)
(* Abstractions.  A complex field is a record                              *)
(*   [dom |-> "x" | "k", id |-> Nat, cls |-> class]                        *)
(* dom is the representation, id names the content (every operation that   *)
(* changes a field's content yields a content never seen before; a Fourier *)
(* transform changes dom and keeps id), cls is the IEEE-754 class of the   *)
(* field: "zero" (all entries 0), "pos" (finite, not all 0), "inf", "nan". *)
(***************************************************************************)
EXTENDS Integers, Sequences, FiniteSets

\* ---------------------------------------------------------------- bounds
MaxNt == 4
MaxNframe == 2

\* ------------------------------------------------------ program constants
ImagIters == 2000

\* The inputs of a run: the compiled-in parameters of lines 12-48.
GridSizes == {2, 3}
Spacings == {-1, 0, 1}
Densities == {"zero", "pos"}

VARIABLES
  pc,              \* position in the script
  Nx, Ny, dx,      \* lines 12, 14 (dy = dx)
  Nt, Nframe,      \* lines 38, 39
  n0,              \* line 48: class of the background density
  gridShape,       \* shape of X, Y, Kx, Ky; <<>> before line 21
  psi_1, psi_2, psi_1_k, psi_2_k,
  atom_num_1, atom_num_2, atom_num_new_1, atom_num_new_2,
  theta_fix_1, theta_fix_2,
  i,               \* the loop variable of both loops
  it_im, it_rt,    \* position of the iterators of range(2000), range(Nt)
  t,               \* elapsed time, in units of dt
  save_index,
  store,           \* the file data/HQV_dipole.hdf5
  printed,         \* lines written to the console
  raised_at,       \* position at which an exception ended the script
  nid,             \* number of field contents produced so far
  ops              \* operations applied to the wavefunction variables in
                   \* the current loop iteration

vars == <<pc, Nx, Ny, dx, Nt, Nframe, n0, gridShape, psi_1, psi_2, psi_1_k,
          psi_2_k, atom_num_1, atom_num_2, atom_num_new_1, atom_num_new_2,
          theta_fix_1, theta_fix_2, i, it_im, it_rt, t, save_index, store,
          printed, raised_at, nid, ops>>

config == <<Nx, Ny, dx, Nt, Nframe, n0>>
wave == <<psi_1, psi_2, psi_1_k, psi_2_k>>
refs == <<atom_num_1, atom_num_2, theta_fix_1, theta_fix_2>>
news == <<atom_num_new_1, atom_num_new_2>>
loops == <<i, it_im, it_rt, t>>
out == <<printed, raised_at>>

Unset == [dom |-> "unset", id |-> 0, cls |-> "unset"]
\* The store: file is "absent", "open" or "closed"; sets are the paths of
\* the datasets other than wavefunction/psi_1, psi_2, whose slices along
\* the third axis are the sequences psi_1, psi_2. Fill is a slice that was
\* allocated and never written.
NoStore == [file |-> "absent", sets |-> {}, psi_1 |-> <<>>, psi_2 |-> <<>>]
Fill == [dom |-> "fill", id |-> 0, cls |-> "zero", prec |-> "complex64"]

\* ------------------------------------------------------------ arithmetic
\* IEEE-754 class of a product a * b.
MulCls(a, b) ==
  IF a = "nan" \/ b = "nan" THEN "nan"
  ELSE IF (a = "zero" /\ b = "inf") \/ (a = "inf" /\ b = "zero") THEN "nan"
  ELSE IF a = "zero" \/ b = "zero" THEN "zero"
  ELSE IF a = "inf" \/ b = "inf" THEN "inf"
  ELSE "pos"

\* IEEE-754 class of a quotient a / b (array division: no exception).
DivCls(a, b) ==
  IF a = "nan" \/ b = "nan" THEN "nan"
  ELSE IF (a = "zero" /\ b = "zero") \/ (a = "inf" /\ b = "inf") THEN "nan"
  ELSE IF b = "zero" THEN "inf"
  ELSE IF b = "inf" \/ a = "zero" THEN "zero"
  ELSE a

Finite(c) == c \in {"zero", "pos"}

\* dx * dy * sum(abs(f) ** 2) with dy = dx /= 0: the class of the field.
AtomNumber(f) == MulCls("pos", MulCls(f.cls, f.cls))

\* ------------------------------------------------------------ transforms
fft2(f) == [f EXCEPT !.dom = "k"]
ifft2(f) == [f EXCEPT !.dom = "x"]

\* ----------------------------------------------------------- propagators
\* include/symplecticMethod.kinetic_evolution: multiplies the conjugate
\* field in place by exp(-i * step * (Kx^2 + Ky^2) / 2), a finite factor
\* that is 1 on the zero mode.
kinetic_evolution(f, new) == [f EXCEPT !.id = new]

\* include/symplecticMethod.potential_evolution: both components from the
\* input densities; a non-finite density of either component reaches both
\* through the cross coupling g12.
potential_evolution(f1, f2, new) ==
  LET c(a, b) == IF Finite(a) /\ Finite(b) THEN a ELSE "nan"
  IN  << [f1 EXCEPT !.id = new, !.cls = c(f1.cls, f2.cls)],
         [f2 EXCEPT !.id = new, !.cls = c(f2.cls, f1.cls)] >>

\* sqrt(atom_num) * ifft2(psi_k) / sqrt(atom_num_new), transformed back.
Renormalise(f_k, ref, cur, new) ==
  fft2([ifft2(f_k) EXCEPT !.id = new,
                          !.cls = DivCls(MulCls(ref, f_k.cls), cur)])

\* psi *= exp(1j * theta_fix) / exp(1j * angle(psi))
FixPhase(f, new) ==
  LET factor == IF f.cls = "nan" THEN "nan" ELSE "pos"
  IN  [f EXCEPT !.id = new, !.cls = MulCls(f.cls, factor)]

IsPair(f, f_k) == f.dom = "x" /\ f_k.dom = "k" /\ fft2(f) = f_k

\* ------------------------------------------------------------------ Init
Init ==
  /\ pc = "grid"
  /\ Nx \in GridSizes /\ Ny \in GridSizes
  /\ dx \in Spacings
  /\ Nt \in 0..MaxNt
  /\ Nframe \in 1..MaxNframe
  /\ n0 \in Densities
  /\ gridShape = <<>>
  /\ psi_1 = Unset /\ psi_2 = Unset /\ psi_1_k = Unset /\ psi_2_k = Unset
  /\ atom_num_1 = "unset" /\ atom_num_2 = "unset"
  /\ atom_num_new_1 = "unset" /\ atom_num_new_2 = "unset"
  /\ theta_fix_1 = "unset" /\ theta_fix_2 = "unset"
  /\ i = -1 /\ it_im = 0 /\ it_rt = 0
  /\ t = 0
  /\ save_index = 0
  /\ store = NoStore
  /\ printed = 0
  /\ raised_at = "none"
  /\ nid = 0
  /\ ops = <<>>

\* --------------------------------------------------- grid (lines 12-27)
\* np.pi / (Mx * dx) raises ZeroDivisionError when Mx * dx = 0.
GridFail ==
  /\ pc = "grid"
  /\ (Nx \div 2) * dx = 0 \/ (Ny \div 2) * dx = 0
  /\ pc' = "ZeroDivisionError"
  /\ raised_at' = pc
  /\ UNCHANGED <<config, gridShape, wave, refs, news, loops, save_index,
                 store, printed, nid, ops>>

\* x = arange(-Mx, Mx) has 2 * Mx points; meshgrid(x, y) has shape
\* (len(y), len(x)).
BuildGrid ==
  /\ pc = "grid"
  /\ (Nx \div 2) * dx /= 0 /\ (Ny \div 2) * dx /= 0
  /\ gridShape' = <<2 * (Ny \div 2), 2 * (Nx \div 2)>>
  /\ pc' = "init_state"
  /\ UNCHANGED <<config, wave, refs, news, loops, save_index, store,
                 out, nid, ops>>

\* ------------------------------------------ initial state (lines 48-67)
\* include/phaseImprinting.get_phase: a phase over the meshgrid X, Y.
get_phase == gridShape

\* n0 has shape (Nx, Ny); sqrt(n0 / 2) * exp(1j * theta) broadcasts only
\* equal shapes (no axis of the shapes modelled here has length 1).
Broadcasts == get_phase = <<Nx, Ny>>

InitialStateFail ==
  /\ pc = "init_state"
  /\ ~Broadcasts
  /\ pc' = "ValueError"
  /\ raised_at' = pc
  /\ UNCHANGED <<config, gridShape, wave, refs, news, loops, save_index,
                 store, printed, nid, ops>>

GenerateInitialState ==
  /\ pc = "init_state"
  /\ Broadcasts
  /\ psi_1' = [dom |-> "x", id |-> 0, cls |-> n0]
  /\ psi_2' = [dom |-> "x", id |-> 0, cls |-> n0]
  /\ psi_1_k' = fft2(psi_1')
  /\ psi_2_k' = fft2(psi_2')
  /\ atom_num_1' = AtomNumber(psi_1')
  /\ atom_num_2' = AtomNumber(psi_2')
  /\ theta_fix_1' = "theta"
  /\ theta_fix_2' = "flat"
  /\ pc' = "im_head"
  /\ UNCHANGED <<config, gridShape, news, loops, save_index, store,
                 out, nid, ops>>

\* ------------------------------- imaginary time evolution (lines 72-102)
\* Mutant: adaptive stopping, once the recomputed atom number of component
\* 1 matches the recorded one.
ImContinue_Tolerance(it) ==
  it < ImagIters /\ ~(it > 0 /\ atom_num_new_1 = atom_num_1)

ImContinue(it) == it < ImagIters

\* for i in range(2000): the next iteration
ImLoopNext ==
  /\ pc = "im_head"
  /\ ImContinue(it_im)
  /\ i' = it_im
  /\ it_im' = it_im + 1
  /\ ops' = <<>>
  /\ pc' = "im_kin1"
  /\ UNCHANGED <<config, gridShape, wave, refs, news, it_rt, t, save_index,
                 store, out, nid>>

\* for i in range(2000): the iterator is exhausted
ImLoopExit ==
  /\ pc = "im_head"
  /\ ~ImContinue(it_im)
  /\ pc' = "st_open"
  /\ UNCHANGED <<config, gridShape, wave, refs, news, loops, save_index,
                 store, out, nid, ops>>

\* lines 74-75
ImKinetic1 ==
  /\ pc = "im_kin1"
  /\ psi_1_k' = kinetic_evolution(psi_1_k, nid + 1)
  /\ psi_2_k' = kinetic_evolution(psi_2_k, nid + 1)
  /\ nid' = nid + 1
  /\ ops' = Append(ops, "kinetic")
  /\ pc' = "im_ifft"
  /\ UNCHANGED <<config, gridShape, psi_1, psi_2, refs, news, loops,
                 save_index, store, out>>

\* lines 77-78
ImToSpatial ==
  /\ pc = "im_ifft"
  /\ psi_1' = ifft2(psi_1_k)
  /\ psi_2' = ifft2(psi_2_k)
  /\ ops' = Append(ops, "ifft2")
  /\ pc' = "im_pot"
  /\ UNCHANGED <<config, gridShape, psi_1_k, psi_2_k, refs, news, loops,
                 save_index, store, out, nid>>

\* line 81
ImPotential ==
  /\ pc = "im_pot"
  /\ psi_1' = potential_evolution(psi_1, psi_2, nid + 1)[1]
  /\ psi_2' = potential_evolution(psi_1, psi_2, nid + 1)[2]
  /\ nid' = nid + 1
  /\ ops' = Append(ops, "potential")
  /\ pc' = "im_fft"
  /\ UNCHANGED <<config, gridShape, psi_1_k, psi_2_k, refs, news, loops,
                 save_index, store, out>>

\* lines 83-84
ImToConjugate ==
  /\ pc = "im_fft"
  /\ psi_1_k' = fft2(psi_1)
  /\ psi_2_k' = fft2(psi_2)
  /\ ops' = Append(ops, "fft2")
  /\ pc' = "im_kin2"
  /\ UNCHANGED <<config, gridShape, psi_1, psi_2, refs, news, loops,
                 save_index, store, out, nid>>

\* Mutant: the renormalisation of lines 91-94 is left out.
ImKinetic2_NoRenormalise ==
  /\ pc = "im_kin2"
  /\ psi_1_k' = kinetic_evolution(psi_1_k, nid + 1)
  /\ psi_2_k' = kinetic_evolution(psi_2_k, nid + 1)
  /\ nid' = nid + 1
  /\ ops' = Append(ops, "kinetic")
  /\ pc' = "im_phase"
  /\ UNCHANGED <<config, gridShape, psi_1, psi_2, refs, news, loops,
                 save_index, store, out>>

\* lines 87-88
ImKinetic2 ==
  /\ pc = "im_kin2"
  /\ psi_1_k' = kinetic_evolution(psi_1_k, nid + 1)
  /\ psi_2_k' = kinetic_evolution(psi_2_k, nid + 1)
  /\ nid' = nid + 1
  /\ ops' = Append(ops, "kinetic")
  /\ pc' = "im_renorm"
  /\ UNCHANGED <<config, gridShape, psi_1, psi_2, refs, news, loops,
                 save_index, store, out>>

\* lines 91-94: the division by sqrt(atom_num_new) is an array division,
\* which yields inf or nan for a zero or non-finite divisor and raises
\* nothing.
ImRenormalise ==
  /\ pc = "im_renorm"
  /\ atom_num_new_1' = AtomNumber(ifft2(psi_1_k))
  /\ atom_num_new_2' = AtomNumber(ifft2(psi_2_k))
  /\ psi_1_k' = Renormalise(psi_1_k, atom_num_1, atom_num_new_1', nid + 1)
  /\ psi_2_k' = Renormalise(psi_2_k, atom_num_2, atom_num_new_2', nid + 1)
  /\ nid' = nid + 1
  /\ ops' = ops \o <<"renormalise", "fft2">>
  /\ pc' = "im_phase"
  /\ UNCHANGED <<config, gridShape, psi_1, psi_2, refs, loops, save_index,
                 store, out>>

\* Mutant: the conjugate fields are not re-derived (lines 101-102 left out).
ImFixPhase_NoTransform ==
  /\ pc = "im_phase"
  /\ psi_1' = FixPhase(ifft2(psi_1_k), nid + 1)
  /\ psi_2' = FixPhase(ifft2(psi_2_k), nid + 1)
  /\ nid' = nid + 1
  /\ ops' = ops \o <<"ifft2", "fix_phase">>
  /\ pc' = "im_head"
  /\ UNCHANGED <<config, gridShape, psi_1_k, psi_2_k, refs, news, loops,
                 save_index, store, out>>

\* lines 97-102
ImFixPhase ==
  /\ pc = "im_phase"
  /\ psi_1' = FixPhase(ifft2(psi_1_k), nid + 1)
  /\ psi_2' = FixPhase(ifft2(psi_2_k), nid + 1)
  /\ psi_1_k' = fft2(psi_1')
  /\ psi_2_k' = fft2(psi_2')
  /\ nid' = nid + 1
  /\ ops' = ops \o <<"ifft2", "fix_phase", "fft2">>
  /\ pc' = "im_head"
  /\ UNCHANGED <<config, gridShape, refs, news, loops, save_index, store,
                 out>>

\* ------------------------------------------- save file (lines 107-126)
StoragePcs == {"st_open", "st_meta", "st_wf", "st_initial", "st_close",
               "ap_open", "ap_resize1", "ap_resize2", "ap_write1",
               "ap_write2", "ap_close"}

\* h5py raises inside (or on entering, or on leaving) a with block: the
\* block's exit closes a file that was opened, and the script ends.
StorageFailure ==
  /\ pc \in StoragePcs
  /\ store' = IF store.file = "open" THEN [store EXCEPT !.file = "closed"]
              ELSE store
  /\ pc' = "OSError"
  /\ raised_at' = pc
  /\ UNCHANGED <<config, gridShape, wave, refs, news, loops, save_index,
                 printed, nid, ops>>

\* line 110: mode 'w' creates the file, truncating an existing one
StOpen ==
  /\ pc = "st_open"
  /\ store' = [NoStore EXCEPT !.file = "open"]
  /\ pc' = "st_meta"
  /\ UNCHANGED <<config, gridShape, wave, refs, news, loops, save_index,
                 out, nid, ops>>

\* lines 112-118
StMeta ==
  /\ pc = "st_meta"
  /\ store' = [store EXCEPT !.sets = @ \cup {"grid/x", "grid/y", "time/Nt",
                                             "time/dt", "time/Nframe"}]
  /\ pc' = "st_wf"
  /\ UNCHANGED <<config, gridShape, wave, refs, news, loops, save_index,
                 out, nid, ops>>

\* lines 121-122: shape (Nx, Ny, 1), growable along the third axis
InitialSlices == <<Fill>>

StCreateWavefunction ==
  /\ pc = "st_wf"
  /\ store' = [store EXCEPT !.psi_1 = InitialSlices, !.psi_2 = InitialSlices]
  /\ pc' = "st_initial"
  /\ UNCHANGED <<config, gridShape, wave, refs, news, loops, save_index,
                 out, nid, ops>>

\* lines 125-126
StInitialState ==
  /\ pc = "st_initial"
  /\ store' = [store EXCEPT !.sets = @ \cup {"initial_state/psi_1",
                                             "initial_state/psi_2"}]
  /\ pc' = "st_close"
  /\ UNCHANGED <<config, gridShape, wave, refs, news, loops, save_index,
                 out, nid, ops>>

\* end of the with block of line 110
StClose ==
  /\ pc = "st_close"
  /\ store' = [store EXCEPT !.file = "closed"]
  /\ pc' = "rt_head"
  /\ UNCHANGED <<config, gridShape, wave, refs, news, loops, save_index,
                 out, nid, ops>>

\* ---------------------------------- real time evolution (lines 131-164)
\* for i in range(Nt): the next iteration
RtLoopNext ==
  /\ pc = "rt_head"
  /\ it_rt < Nt
  /\ i' = it_rt
  /\ it_rt' = it_rt + 1
  /\ ops' = <<>>
  /\ pc' = "rt_kin1"
  /\ UNCHANGED <<config, gridShape, wave, refs, news, it_im, t, save_index,
                 store, out, nid>>

\* for i in range(Nt): the iterator is exhausted, the script ends
RtLoopExit ==
  /\ pc = "rt_head"
  /\ ~(it_rt < Nt)
  /\ pc' = "done"
  /\ UNCHANGED <<config, gridShape, wave, refs, news, loops, save_index,
                 store, out, nid, ops>>

\* lines 133-134
RtKinetic1 ==
  /\ pc = "rt_kin1"
  /\ psi_1_k' = kinetic_evolution(psi_1_k, nid + 1)
  /\ psi_2_k' = kinetic_evolution(psi_2_k, nid + 1)
  /\ nid' = nid + 1
  /\ ops' = Append(ops, "kinetic")
  /\ pc' = "rt_ifft"
  /\ UNCHANGED <<config, gridShape, psi_1, psi_2, refs, news, loops,
                 save_index, store, out>>

\* lines 136-137
RtToSpatial ==
  /\ pc = "rt_ifft"
  /\ psi_1' = ifft2(psi_1_k)
  /\ psi_2' = ifft2(psi_2_k)
  /\ ops' = Append(ops, "ifft2")
  /\ pc' = "rt_pot"
  /\ UNCHANGED <<config, gridShape, psi_1_k, psi_2_k, refs, news, loops,
                 save_index, store, out, nid>>

\* line 140
RtPotential ==
  /\ pc = "rt_pot"
  /\ psi_1' = potential_evolution(psi_1, psi_2, nid + 1)[1]
  /\ psi_2' = potential_evolution(psi_1, psi_2, nid + 1)[2]
  /\ nid' = nid + 1
  /\ ops' = Append(ops, "potential")
  /\ pc' = "rt_fft"
  /\ UNCHANGED <<config, gridShape, psi_1_k, psi_2_k, refs, news, loops,
                 save_index, store, out>>

\* lines 142-143
RtToConjugate ==
  /\ pc = "rt_fft"
  /\ psi_1_k' = fft2(psi_1)
  /\ psi_2_k' = fft2(psi_2)
  /\ ops' = Append(ops, "fft2")
  /\ pc' = "rt_kin2"
  /\ UNCHANGED <<config, gridShape, psi_1, psi_2, refs, news, loops,
                 save_index, store, out, nid>>

\* Mutant: the renormalisation of the imaginary-time loop is carried over
\* to the real-time loop.
RtKinetic2_Renormalise ==
  /\ pc = "rt_kin2"
  /\ atom_num_new_1' = AtomNumber(ifft2(psi_1_k))
  /\ atom_num_new_2' = AtomNumber(ifft2(psi_2_k))
  /\ psi_1_k' = Renormalise(kinetic_evolution(psi_1_k, nid + 1), atom_num_1,
                            atom_num_new_1', nid + 2)
  /\ psi_2_k' = Renormalise(kinetic_evolution(psi_2_k, nid + 1), atom_num_2,
                            atom_num_new_2', nid + 2)
  /\ nid' = nid + 2
  /\ ops' = ops \o <<"kinetic", "renormalise", "fft2">>
  /\ pc' = "rt_save"
  /\ UNCHANGED <<config, gridShape, psi_1, psi_2, refs, loops, save_index,
                 store, out>>

\* lines 146-147
RtKinetic2 ==
  /\ pc = "rt_kin2"
  /\ psi_1_k' = kinetic_evolution(psi_1_k, nid + 1)
  /\ psi_2_k' = kinetic_evolution(psi_2_k, nid + 1)
  /\ nid' = nid + 1
  /\ ops' = Append(ops, "kinetic")
  /\ pc' = "rt_save"
  /\ UNCHANGED <<config, gridShape, psi_1, psi_2, refs, news, loops,
                 save_index, store, out>>

\* Mutant: the condition of the progress print (line 161) used for saving.
SaveDue_PrintCondition(j) == j % Nframe = 0

\* line 150
SaveDue(j) == (j + 1) % Nframe = 0

RtSaveCheck ==
  /\ pc = "rt_save"
  /\ pc' = IF SaveDue(i) THEN "ap_open" ELSE "rt_print"
  /\ UNCHANGED <<config, gridShape, wave, refs, news, loops, save_index,
                 store, out, nid, ops>>

\* lines 151-153: mode 'r+' opens the existing file
ApOpen ==
  /\ pc = "ap_open"
  /\ store' = [store EXCEPT !.file = "open"]
  /\ pc' = "ap_resize1"
  /\ UNCHANGED <<config, gridShape, wave, refs, news, loops, save_index,
                 out, nid, ops>>

\* Dataset.resize along the third axis: kept slices keep their content,
\* new slices are allocated unwritten.
Resize(slices, n) ==
  [k \in 1..n |-> IF k <= Len(slices) THEN slices[k] ELSE Fill]

\* cp.asnumpy(cp.fft.ifft2(psi_k)) stored with dtype complex64
Snapshot(f_k) == [dom |-> "x", id |-> f_k.id, cls |-> f_k.cls,
                  prec |-> "complex64"]

\* line 154
ApResize1 ==
  /\ pc = "ap_resize1"
  /\ store' = [store EXCEPT !.psi_1 = Resize(@, save_index + 1)]
  /\ pc' = "ap_resize2"
  /\ UNCHANGED <<config, gridShape, wave, refs, news, loops, save_index,
                 out, nid, ops>>

\* line 155
ApResize2 ==
  /\ pc = "ap_resize2"
  /\ store' = [store EXCEPT !.psi_2 = Resize(@, save_index + 1)]
  /\ pc' = "ap_write1"
  /\ UNCHANGED <<config, gridShape, wave, refs, news, loops, save_index,
                 out, nid, ops>>

\* line 156 (slice save_index is element save_index + 1 of the sequence)
ApWrite1 ==
  /\ pc = "ap_write1"
  /\ store' = [store EXCEPT !.psi_1[save_index + 1] = Snapshot(psi_1_k)]
  /\ pc' = "ap_write2"
  /\ UNCHANGED <<config, gridShape, wave, refs, news, loops, save_index,
                 out, nid, ops>>

\* line 157
ApWrite2 ==
  /\ pc = "ap_write2"
  /\ store' = [store EXCEPT !.psi_2[save_index + 1] = Snapshot(psi_2_k)]
  /\ pc' = "ap_close"
  /\ UNCHANGED <<config, gridShape, wave, refs, news, loops, save_index,
                 out, nid, ops>>

\* Mutant: the file is not closed before the index advances.
ApClose_LeftOpen ==
  /\ pc = "ap_close"
  /\ pc' = "ap_incr"
  /\ UNCHANGED <<config, gridShape, wave, refs, news, loops, save_index,
                 store, out, nid, ops>>

\* end of the with block of line 151
ApClose ==
  /\ pc = "ap_close"
  /\ store' = [store EXCEPT !.file = "closed"]
  /\ pc' = "ap_incr"
  /\ UNCHANGED <<config, gridShape, wave, refs, news, loops, save_index,
                 out, nid, ops>>

\* line 158
ApIncrement ==
  /\ pc = "ap_incr"
  /\ save_index' = save_index + 1
  /\ pc' = "rt_print"
  /\ UNCHANGED <<config, gridShape, wave, refs, news, loops, store, out,
                 nid, ops>>

\* lines 161-162
RtPrint ==
  /\ pc = "rt_print"
  /\ printed' = IF i % Nframe = 0 THEN printed + 1 ELSE printed
  /\ pc' = "rt_time"
  /\ UNCHANGED <<config, gridShape, wave, refs, news, loops, save_index,
                 store, raised_at, nid, ops>>

\* line 164
RtAdvanceTime ==
  /\ pc = "rt_time"
  /\ t' = t + 1
  /\ pc' = "rt_head"
  /\ UNCHANGED <<config, gridShape, wave, refs, news, i, it_im, it_rt,
                 save_index, store, out, nid, ops>>

\* ------------------------------------------------------- specifications
Next ==
  \/ GridFail \/ BuildGrid
  \/ InitialStateFail \/ GenerateInitialState
  \/ ImLoopNext \/ ImLoopExit
  \/ ImKinetic1 \/ ImToSpatial \/ ImPotential \/ ImToConjugate
  \/ ImKinetic2 \/ ImRenormalise \/ ImFixPhase
  \/ StorageFailure
  \/ StOpen \/ StMeta \/ StCreateWavefunction \/ StInitialState \/ StClose
  \/ RtLoopNext \/ RtLoopExit
  \/ RtKinetic1 \/ RtToSpatial \/ RtPotential \/ RtToConjugate
  \/ RtKinetic2 \/ RtSaveCheck
  \/ ApOpen \/ ApResize1 \/ ApResize2 \/ ApWrite1 \/ ApWrite2 \/ ApClose
  \/ ApIncrement
  \/ RtPrint \/ RtAdvanceTime

Spec == Init /\ [][Next]_vars

FairInit == Init /\ Nt = 2 /\ Nframe = 2

\* The script runs on a single thread that never blocks: a step that can
\* be taken is taken.
FairSpec == FairInit /\ [][Next]_vars /\ WF_vars(Next)

\* ------------------------------------------------------------ positions
ImBody == {"im_kin1", "im_ifft", "im_pot", "im_fft", "im_kin2", "im_renorm",
           "im_phase"}
StPcs == {"st_open", "st_meta", "st_wf", "st_initial", "st_close"}
ApPcs == {"ap_open", "ap_resize1", "ap_resize2", "ap_write1", "ap_write2",
          "ap_close", "ap_incr"}
RtSteps == {"rt_kin1", "rt_ifft", "rt_pot", "rt_fft", "rt_kin2"}
RtPcs == {"rt_head", "rt_save", "rt_print", "rt_time"} \cup RtSteps \cup ApPcs

BothPairs == IsPair(psi_1, psi_1_k) /\ IsPair(psi_2, psi_2_k)
Written(slice) == slice /= Fill

\* ------------------------------------------------------------------ C1
\* C1: in the real-time loop the store and save_index change only in an
\* iteration i with (i + 1) mod Nframe = 0; when an iteration has passed
\* its save section, save_index is the number of multiples of Nframe among
\* the completed step counts 1 .. i + 1; when the loop has ended,
\* save_index = floor(Nt / Nframe).
C1_SnapshotCadence ==
  /\ [](pc = "rt_print" => save_index = (i + 1) \div Nframe)
  /\ [](pc = "done" => save_index = Nt \div Nframe)
  /\ [][(pc \in RtPcs /\ (store' /= store \/ save_index' /= save_index))
          => ((i + 1) % Nframe = 0)]_vars

\* A run whose Nt is no multiple of Nframe has ended with a snapshot taken.
C1_Witness == pc = "done" /\ Nt % Nframe /= 0 /\ save_index >= 1

\* ------------------------------------------------------------------ C2
\* C2: in every state between appends, once the datasets exist, the length
\* of the third axis of wavefunction/psi_1 and of wavefunction/psi_2 is the
\* number of snapshots appended so far, so no slice is unwritten.
C2_LengthIsSnapshotCount ==
  (pc \in {"st_initial", "st_close", "done"} \cup (RtPcs \ ApPcs))
    => /\ Len(store.psi_1) = save_index
       /\ Len(store.psi_2) = save_index
       /\ \A k \in 1..Len(store.psi_1) : Written(store.psi_1[k])
       /\ \A k \in 1..Len(store.psi_2) : Written(store.psi_2[k])

\* ------------------------------------------------------------------ C3
\* C3: save_index never decreases; it changes only by one, in a step taken
\* with the file closed and the slice save_index of both datasets holding
\* the snapshot of the current conjugate fields; a step that raises a
\* storage error leaves save_index as it was.
C3_IndexAdvancesAfterDurableAppend ==
  [][/\ save_index' >= save_index
     /\ (save_index' /= save_index)
          => (/\ save_index' = save_index + 1
              /\ store.file = "closed"
              /\ Len(store.psi_1) >= save_index + 1
              /\ Len(store.psi_2) >= save_index + 1
              /\ store.psi_1[save_index + 1] = Snapshot(psi_1_k)
              /\ store.psi_2[save_index + 1] = Snapshot(psi_2_k))
     /\ (pc' = "OSError") => (save_index' = save_index)]_vars

\* A second append has failed after the first one advanced the index.
C3_Witness == pc = "OSError" /\ raised_at \in ApPcs /\ save_index = 1

\* ------------------------------------------------------------------ C4
\* C4: when an append has failed, every slice present in wavefunction/psi_1
\* and wavefunction/psi_2 is a completely written snapshot.
C4_NoUnwrittenSliceAfterFailedAppend ==
  (pc = "OSError" /\ raised_at \in ApPcs)
    => /\ \A k \in 1..Len(store.psi_1) : Written(store.psi_1[k])
       /\ \A k \in 1..Len(store.psi_2) : Written(store.psi_2[k])

\* ------------------------------------------------------------------ C5
BadDivisor(a) == a \in {"zero", "inf", "nan"}

\* C5: once the renormalisation has computed a divisor that is zero or
\* non-finite, the script has stopped with an error raised there: no later
\* step of the iteration, no further iteration, no store creation and no
\* real-time step follows.
C5_AbortOnBadDivisor ==
  (BadDivisor(atom_num_new_1) \/ BadDivisor(atom_num_new_2))
    => pc \in {"ZeroDivisionError", "ValueError", "OSError"}
         /\ raised_at = "im_renorm"

\* ------------------------------------------------------------------ C6
Malformed == Nx % 2 /= 0 \/ Ny % 2 /= 0 \/ dx <= 0

\* C6: with a malformed grid configuration (Nx or Ny odd, or dx = dy not
\* positive) no grid and no wavefunction is built, no iteration of either
\* loop is started and no store file is created.
C6_MalformedGridFailsAtStartup ==
  Malformed => /\ gridShape = <<>>
               /\ wave = <<Unset, Unset, Unset, Unset>>
               /\ it_im = 0 /\ it_rt = 0
               /\ store.file = "absent"

\* ------------------------------------------------------------------ C7
\* C7 as claimed: at loop entry and at the end of every iteration of both
\* loops the spatial and the conjugate field of each component are a
\* Fourier-transform pair.
C7_PairAtEveryIterationEnd ==
  pc \in {"im_head", "rt_head"} => BothPairs

\* Number of content-changing operations by which the spatial field is
\* behind the conjugate field (negative: ahead of it).
Lag(f, f_k) == f_k.id - f.id

\* C7 as amended: the fields are a pair at the entry and at the end of every
\* iteration of the imaginary-time loop and at the entry of the real-time
\* loop; at the end of every real-time iteration the conjugate field is the
\* kinetic step of the transform of the spatial field, which is one
\* operation behind; the spatial field is never more than two operations
\* behind and never more than one ahead.
C7_PairAmended ==
  /\ pc = "im_head" => BothPairs
  /\ (pc = "rt_head" /\ it_rt = 0) => BothPairs
  /\ (pc = "rt_head" /\ it_rt > 0)
       => /\ psi_1_k = kinetic_evolution(fft2(psi_1), psi_1.id + 1)
          /\ psi_2_k = kinetic_evolution(fft2(psi_2), psi_2.id + 1)
          /\ ~IsPair(psi_1, psi_1_k) /\ ~IsPair(psi_2, psi_2_k)
  /\ psi_1 /= Unset
       => /\ Lag(psi_1, psi_1_k) \in -1..2
          /\ Lag(psi_2, psi_2_k) \in -1..2

\* The second real-time iteration has ended.
C7_Witness == pc = "rt_head" /\ it_rt = 2 /\ ~BothPairs

\* ------------------------------------------------------------------ C8
\* C8: the imaginary-time loop, once entered, is left; it is left only
\* with 2000 iterations started and completed, whatever the fields hold,
\* and only towards the creation of the store, which is followed by the
\* entry of the real-time loop unless the store raises an error.
C8_FixedBudgetTerminates ==
  /\ [](pc \in ImBody \cup {"im_head"} => it_im <= 2000)
  /\ [](pc \in StPcs \cup RtPcs \cup {"done", "OSError"}
          => (it_im = 2000 /\ nid >= 5 * 2000))
  /\ [][(pc = "im_head" /\ pc' /= "im_head")
          => (pc' = "st_open" <=> it_im = 2000)]_vars
  /\ (pc = "im_head" /\ it_im = 0) ~> (pc = "st_open")
  /\ (pc = "st_open") ~> (pc = "rt_head" \/ pc = "OSError")

\* The real-time loop is entered after a relaxation whose fields are nan.
C8_Witness ==
  pc = "rt_head" /\ it_rt = 0 /\ it_im = 2000 /\ psi_1_k.cls = "nan"

\* ------------------------------------------------------------------ C9
ImOrder == <<"kinetic", "ifft2", "potential", "fft2", "kinetic",
             "renormalise", "fft2", "ifft2", "fix_phase", "fft2">>

IsPrefix(a, b) == Len(a) <= Len(b) /\ a = SubSeq(b, 1, Len(a))

\* C9: the operations of an imaginary-time iteration are a prefix of
\* kinetic, ifft2, potential, fft2, kinetic, renormalise, fft2, ifft2,
\* fix_phase, fft2 while it runs and the whole of it when it has ended
\* (five new contents per iteration); the atom numbers and phases used are
\* those recorded at initialization.
C9_IterationOrder ==
  /\ pc \in ImBody => (IsPrefix(ops, ImOrder) /\ ops /= ImOrder)
  /\ (pc = "im_head" /\ it_im > 0) => (ops = ImOrder /\ nid = 5 * it_im)
  /\ pc \in ImBody \cup {"im_head"}
       => /\ atom_num_1 = AtomNumber([cls |-> n0])
          /\ atom_num_2 = AtomNumber([cls |-> n0])
          /\ theta_fix_1 = "theta" /\ theta_fix_2 = "flat"

\* The second imaginary-time iteration has ended.
C9_Witness == pc = "im_head" /\ it_im = 2 /\ ops = ImOrder

\* ----------------------------------------------------------------- C10
RtOrder == <<"kinetic", "ifft2", "potential", "fft2", "kinetic">>

\* C10: a step of the real-time loop leaves the recorded atom numbers and
\* phases and the recomputed atom numbers as they were; it changes the
\* wavefunction fields only in the kinetic, transform and potential steps,
\* never in the append; the operations of an iteration that reaches its
\* save section are kinetic, ifft2, potential, fft2, kinetic.
C10_RealTimeFrame ==
  [][(pc \in RtPcs)
       => (/\ refs' = refs
           /\ news' = news
           /\ (wave' /= wave) => (pc \in RtSteps)
           /\ (pc' = "rt_save") => (ops' = RtOrder)
           /\ (pc \in ApPcs \cup {"rt_save", "rt_print", "rt_time"})
                => (ops' = RtOrder /\ wave' = wave))]_vars

\* An append of the real-time loop has completed.
C10_Witness == pc = "rt_print" /\ save_index = 1 /\ ops = RtOrder

====
